---- MODULE Spec2Model ----
(***************************************************************************)
(* NYC taxi demand pipeline: loader, cleaner, aggregator, splitter and the *)
(* pairing of actuals with forecasts, modelled from main.py and src/*.py.  *)
(*                                                                         *)
(* A data frame is a sequence of rows (records).  A numeric or categorical *)
(* cell is <<v>> when present and <<>> when missing (NaN / None).  Numbers *)
(* are fixed-point integers in units of 1/Scale so that medians and the    *)
(* linear interpolation of quantiles are exact.  Timestamps are minutes    *)
(* since 2024-01-01 00:00.                                                 *)
(***************************************************************************)
EXTENDS Integers, Sequences, FiniteSets, TLC

VARIABLES
    pc,                 \* position of the running script
    error,              \* "none" or the name of the exception that ended the run
    files,              \* batch files present in the data directory
    batches,            \* file -> rows stored in it
    df_all,             \* the loader's concatenated frame
    df_raw,             \* the caller's frame (main.py: df_raw)
    df_before,          \* history: the caller's frame when preprocess_data was called
    df,                 \* the frame bound to preprocess_data's local name df
    df_clean,           \* the frame preprocess_data returned
    agg_fn,             \* which aggregator produced df_daily ("none" before any ran)
    df_daily,           \* the aggregated series
    test_size,          \* argument of train_test_split_prophet
    train_df, test_df,  \* the split
    forecast_for_test,  \* the forecast rows handed to the evaluator
    metric_pairs        \* the (actual, forecast) pairs the metrics are computed on

vars == <<pc, error, files, batches, df_all, df_raw, df_before, df, df_clean, agg_fn,
          df_daily, test_size, train_df, test_df, forecast_for_test, metric_pairs>>

-----------------------------------------------------------------------------
(* Generic helpers *)

Min(a, b) == IF a < b THEN a ELSE b
Max(a, b) == IF a > b THEN a ELSE b

Range(s) == {s[i] : i \in 1..Len(s)}

\* All sequences over S of length at most n.
SeqsUpTo(S, n) == UNION {[1..m -> S] : m \in 0..n}

\* Sequences without repeated elements.
IsInjective(s) == \A i, j \in 1..Len(s) : i # j => s[i] # s[j]

-----------------------------------------------------------------------------
(* Cells and trip records *)

\* Numbers are integers in units of 1/Scale (two medians and two 1/100
\* interpolations stay exact).
Scale == 2 * 100 * 100

NaN == <<>>
Num(v) == <<v * Scale>>
IsNa(c) == c = <<>>

\* A cell of tpep_pickup_datetime: a timestamp (minutes since 2024-01-01 00:00),
\* NaT, or, in an object-typed column, text that parses to an instant or does not.
Timestamp(t) == [k |-> "ts", t |-> t]
NaT == [k |-> "NaT", t |-> 0]
Text(t) == [k |-> "str", t |-> t]
BadText == [k |-> "bad", t |-> 0]

MinutesPerHour == 60
MinutesPerDay == 24 * MinutesPerHour

\* pd.api.types.is_datetime64_any_dtype(column)
IsDatetimeDtype(col) == \A i \in 1..Len(col) : col[i].k \in {"ts", "NaT"}

\* pd.to_datetime(cell, errors='coerce')
ToDatetimeCell(c) ==
    CASE c.k = "str" -> Timestamp(c.t)
      [] c.k = "bad" -> NaT
      [] OTHER -> c

Column(frame, col) == [i \in 1..Len(frame) |-> frame[i][col]]

SetColumn(frame, col, cells) ==
    [i \in 1..Len(frame) |-> [frame[i] EXCEPT ![col] = cells[i]]]

\* if not is_datetime64_any_dtype(df[c]): df[c] = pd.to_datetime(df[c], errors='coerce')
EnsureDatetime(frame) ==
    IF IsDatetimeDtype(Column(frame, "tpep_pickup_datetime"))
    THEN frame
    ELSE [i \in 1..Len(frame) |->
            [frame[i] EXCEPT !.tpep_pickup_datetime = ToDatetimeCell(@)]]

-----------------------------------------------------------------------------
(* Splitter: evaluation.py train_test_split_prophet *)

\* df.sort_values(by='ds').reset_index(drop=True): ascending by ds.
\* Insertion of one row into an ascending sequence, after the rows with ds <= its ds.
RECURSIVE InsertByDs(_, _)
InsertByDs(s, r) ==
    IF s = <<>> THEN <<r>>
    ELSE IF r.ds < s[1].ds THEN <<r>> \o s
    ELSE <<s[1]>> \o InsertByDs(Tail(s), r)

RECURSIVE SortValuesFrom(_, _)
SortValuesFrom(s, acc) ==
    IF s = <<>> THEN acc ELSE SortValuesFrom(Tail(s), InsertByDs(acc, s[1]))

SortValuesNone(s) == s

SortValues(s) == SortValuesFrom(s, <<>>)

\* Python slice index normalisation (step 1): negative indices count from the end,
\* everything is clamped to 0..n.
SliceIndex(i, n) == IF i < 0 THEN Max(n + i, 0) ELSE Min(i, n)

\* s.iloc[:stop]
ILocTo(s, stop) == SubSeq(s, 1, SliceIndex(stop, Len(s)))

\* s.iloc[start:]
ILocFrom(s, start) == SubSeq(s, SliceIndex(start, Len(s)) + 1, Len(s))

SplitTrainOffByOne(s, k) == ILocTo(SortValues(s), -k - 1)

SplitTrain(s, k) == ILocTo(SortValues(s), -k)

SplitTest(s, k) == ILocFrom(SortValues(s), -k)

\* train_test_split_prophet(df_daily, test_size): never raises, whatever test_size is.
TrainTestSplit ==
    /\ pc = "split"
    /\ train_df' = SplitTrain(df_daily, test_size)
    /\ test_df' = SplitTest(df_daily, test_size)
    /\ pc' = "fit"
    /\ UNCHANGED <<error, files, batches, df_all, df_raw, df_before, df, df_clean,
                   agg_fn, df_daily, test_size, forecast_for_test, metric_pairs>>

-----------------------------------------------------------------------------
(* Cleaner: preprocessing.py *)

ScrubCols == <<"trip_distance", "fare_amount", "total_amount">>
NumericCols == <<"passenger_count", "congestion_surcharge", "Airport_fee", "RatecodeID",
                 "fare_amount", "total_amount">>
CategoricalCols == <<"store_and_fwd_flag">>
CapCols == <<"trip_distance", "fare_amount", "total_amount">>

\* The present values of a column, in row order (pandas skips missing cells).
Present(cells) ==
    LET kept == SelectSeq(cells, LAMBDA c : ~IsNa(c))
    IN  [i \in 1..Len(kept) |-> kept[i][1]]

RECURSIVE InsertSorted(_, _)
InsertSorted(s, v) ==
    IF s = <<>> THEN <<v>>
    ELSE IF v < s[1] THEN <<v>> \o s
    ELSE <<s[1]>> \o InsertSorted(Tail(s), v)

RECURSIVE SortedFrom(_, _)
SortedFrom(s, acc) ==
    IF s = <<>> THEN acc ELSE SortedFrom(Tail(s), InsertSorted(acc, s[1]))

Sorted(s) == SortedFrom(s, <<>>)

\* df.loc[df[col] < 0, col] = np.nan  (NaN < 0 is False)
ScrubColumn(frame, col) ==
    SetColumn(frame, col,
        [i \in 1..Len(frame) |->
            IF ~IsNa(frame[i][col]) /\ frame[i][col][1] < 0 THEN NaN ELSE frame[i][col]])

RECURSIVE remove_negative_values(_, _)
remove_negative_values(frame, cols) ==
    IF cols = <<>> THEN frame
    ELSE remove_negative_values(ScrubColumn(frame, cols[1]), Tail(cols))

\* The middle element taken without averaging the two middle values of an even count.
MedianLow(cells) ==
    LET v == Sorted(Present(cells))
        n == Len(v)
    IN  IF n = 0 THEN NaN ELSE <<v[(n + 1) \div 2]>>

\* Series.median(): of the present values; NaN when there is none.
Median(cells) ==
    LET v == Sorted(Present(cells))
        n == Len(v)
    IN  IF n = 0 THEN NaN
        ELSE IF n % 2 = 1 THEN <<v[(n + 1) \div 2]>>
        ELSE <<(v[n \div 2] + v[n \div 2 + 1]) \div 2>>

\* df[col] = value: every cell overwritten, present or not.
FillNaAll(cells, value) == [i \in 1..Len(cells) |-> value]

\* Series.fillna(value): filling with NaN changes nothing.
FillNa(cells, value) ==
    [i \in 1..Len(cells) |-> IF IsNa(cells[i]) THEN value ELSE cells[i]]

RECURSIVE fill_missing_numeric(_, _)
fill_missing_numeric(frame, cols) ==
    IF cols = <<>> THEN frame
    ELSE LET cells == Column(frame, cols[1])
         IN  fill_missing_numeric(
                 SetColumn(frame, cols[1], FillNa(cells, Median(cells))), Tail(cols))

\* Order in which Series.mode() lists equally frequent values (sorted).
FlagOrder == <<"N", "Y">>

\* Series.mode(): the most frequent present values, sorted; empty when all missing.
Mode(cells) ==
    LET v == Present(cells)
        count(x) == Cardinality({i \in 1..Len(v) : v[i] = x})
        best(x) == count(x) > 0 /\ \A i \in 1..Len(v) : count(v[i]) <= count(x)
    IN  SelectSeq(FlagOrder, best)

\* mode()[0] raises KeyError on an empty result.
ModeIsEmpty(frame, cols) ==
    \E k \in 1..Len(cols) : Mode(Column(frame, cols[k])) = <<>>

RECURSIVE fill_missing_categorical(_, _)
fill_missing_categorical(frame, cols) ==
    IF cols = <<>> THEN frame
    ELSE LET cells == Column(frame, cols[1])
         IN  fill_missing_categorical(
                 SetColumn(frame, cols[1], FillNa(cells, <<Mode(cells)[1]>>)), Tail(cols))

\* Series.quantile(q) with q = q100/100: linear interpolation between the order
\* statistics around position (n-1)*q of the present values; NaN when none.
Quantile(cells, q100) ==
    LET v == Sorted(Present(cells))
        n == Len(v)
        lo == ((n - 1) * q100) \div 100
        r == ((n - 1) * q100) % 100
    IN  IF n = 0 THEN NaN
        ELSE IF r = 0 THEN <<v[lo + 1]>>
        ELSE <<v[lo + 1] + (r * (v[lo + 2] - v[lo + 1])) \div 100>>

LowerPercentile == 1
UpperPercentile == 99

\* Series.clip(lower, upper): missing cells stay missing, a NaN bound does not bind.
Clip(c, lower, upper) ==
    IF IsNa(c) THEN c
    ELSE LET raised == IF ~IsNa(lower) /\ c[1] < lower[1] THEN lower ELSE c
         IN  IF ~IsNa(upper) /\ raised[1] > upper[1] THEN upper ELSE raised

cap_outliers(frame, col) ==
    LET cells == Column(frame, col)
        lower_val == Quantile(cells, LowerPercentile)
        upper_val == Quantile(cells, UpperPercentile)
    IN  SetColumn(frame, col, [i \in 1..Len(cells) |-> Clip(cells[i], lower_val, upper_val)])

RECURSIVE CapAll(_, _)
CapAll(frame, cols) ==
    IF cols = <<>> THEN frame ELSE CapAll(cap_outliers(frame, cols[1]), Tail(cols))

\* preprocess_data as a function of its argument, for a call that returns
\* (steps 1 to 4 in the order of the code).
preprocess_data(frame) ==
    CapAll(
        fill_missing_categorical(
            fill_missing_numeric(remove_negative_values(frame, ScrubCols), NumericCols),
            CategoricalCols),
        CapCols)

\* The helpers write into the frame they are given (df.loc[...] = ..., df[col] = ...)
\* and preprocess_data passes its argument on without copying it: the caller's frame
\* and the local df are one object.
SharesCallerFrame == TRUE

CallerSees(own, written) == IF SharesCallerFrame THEN written ELSE own

\* preprocess_data step 1 (the call binds df to the caller's frame).
RemoveNegativeValues ==
    /\ pc = "preprocess"
    /\ df_before' = df_raw
    /\ df' = remove_negative_values(df_raw, ScrubCols)
    /\ df_raw' = CallerSees(df_raw, df')
    /\ pc' = "fill_numeric"
    /\ UNCHANGED <<error, files, batches, df_all, df_clean, agg_fn, df_daily, test_size,
                   train_df, test_df, forecast_for_test, metric_pairs>>

\* preprocess_data step 2
FillMissingNumeric ==
    /\ pc = "fill_numeric"
    /\ df' = fill_missing_numeric(df, NumericCols)
    /\ df_raw' = CallerSees(df_raw, df')
    /\ pc' = "fill_categorical"
    /\ UNCHANGED <<error, files, batches, df_all, df_before, df_clean, agg_fn, df_daily,
                   test_size, train_df, test_df, forecast_for_test, metric_pairs>>

\* preprocess_data step 3
FillMissingCategorical ==
    /\ pc = "fill_categorical"
    /\ IF ModeIsEmpty(df, CategoricalCols)
       THEN /\ error' = "KeyError"
            /\ pc' = "main_aborted"
            /\ UNCHANGED <<df, df_raw>>
       ELSE /\ df' = fill_missing_categorical(df, CategoricalCols)
            /\ df_raw' = CallerSees(df_raw, df')
            /\ pc' = "cap_outliers"
            /\ UNCHANGED error
    /\ UNCHANGED <<files, batches, df_all, df_before, df_clean, agg_fn, df_daily,
                   test_size, train_df, test_df, forecast_for_test, metric_pairs>>

\* preprocess_data step 4 and the return
CapOutliers ==
    /\ pc = "cap_outliers"
    /\ df' = CapAll(df, CapCols)
    /\ df_raw' = CallerSees(df_raw, df')
    /\ df_clean' = df'
    /\ pc' = "aggregate"
    /\ UNCHANGED <<error, files, batches, df_all, df_before, agg_fn, df_daily,
                   test_size, train_df, test_df, forecast_for_test, metric_pairs>>

-----------------------------------------------------------------------------
(* Aggregator: aggregation.py aggregate_daily, aggregate_hourly *)

\* Series.dt.date: the calendar date of a timestamp, missing for NaT.
DtDate(c) == IF c.k = "ts" THEN <<c.t \div MinutesPerDay>> ELSE <<>>

\* Series.dt.floor('h')
DtFloorHour(c) ==
    IF c.k = "ts" THEN <<(c.t \div MinutesPerHour) * MinutesPerHour>> ELSE <<>>

RECURSIVE AscendingSeq(_)
AscendingSeq(S) ==
    IF S = {} THEN <<>>
    ELSE LET m == CHOOSE x \in S : \A y \in S : x <= y
         IN  <<m>> \o AscendingSeq(S \ {m})

\* One point per row, missing keys dropped: what groupby().size() would give if
\* rows were not grouped.
GroupBySizeUngrouped(keys) ==
    LET present == SelectSeq(keys, LAMBDA c : c # <<>>)
    IN  [i \in 1..Len(present) |-> [ds |-> present[i][1], y |-> 1]]

\* df.groupby(key).size().reset_index(): one row per distinct non-missing key, in
\* ascending key order, with the number of rows holding that key.
GroupBySize(keys) ==
    LET present == {i \in 1..Len(keys) : keys[i] # <<>>}
        ks == AscendingSeq({keys[i][1] : i \in present})
    IN  [n \in 1..Len(ks) |->
            [ds |-> ks[n], y |-> Cardinality({i \in present : keys[i][1] = ks[n]})]]

aggregate_daily(frame) ==
    LET conv == EnsureDatetime(frame)
        pickup_date == [i \in 1..Len(conv) |-> DtDate(conv[i].tpep_pickup_datetime)]
    IN  SortValues(GroupBySize(pickup_date))

aggregate_hourly(frame) ==
    LET conv == EnsureDatetime(frame)
        pickup_hour == [i \in 1..Len(conv) |-> DtFloorHour(conv[i].tpep_pickup_datetime)]
    IN  SortValues(GroupBySize(pickup_hour))

AggregateDaily ==
    /\ pc = "aggregate"
    /\ df_daily' = aggregate_daily(df_clean)
    /\ agg_fn' = "daily"
    /\ pc' = "split"
    /\ UNCHANGED <<error, files, batches, df_all, df_raw, df_before, df, df_clean,
                   test_size, train_df, test_df, forecast_for_test, metric_pairs>>

AggregateHourly ==
    /\ pc = "aggregate"
    /\ df_daily' = aggregate_hourly(df_clean)
    /\ agg_fn' = "hourly"
    /\ pc' = "split"
    /\ UNCHANGED <<error, files, batches, df_all, df_raw, df_before, df, df_clean,
                   test_size, train_df, test_df, forecast_for_test, metric_pairs>>

-----------------------------------------------------------------------------
(* Loader: eda.py / aggregation.py load_all_data and the filter of main.py *)

\* Number of monthly 2024 batches the data set is expected to hold.
NumMonths2024 == 3

File2024(m) == <<2024, m>>
FileJan2025 == <<2025, 1>>

ExpectedFiles == {File2024(m) : m \in 1..NumMonths2024} \cup {FileJan2025}

\* sorted(glob.glob("yellow_tripdata_2024-*.parquet")): the 2024 files that exist,
\* in file-name order.
Glob2024(dir) ==
    LET months == AscendingSeq({f[2] : f \in {g \in dir : g[1] = 2024}})
    IN  [i \in 1..Len(months) |-> File2024(months[i])]

\* pd.concat(df_list, ignore_index=True)
RECURSIVE Concat(_)
Concat(frames) ==
    IF frames = <<>> THEN <<>> ELSE frames[1] \o Concat(Tail(frames))

\* The frames read by load_all_data, when reading the January 2025 file succeeds.
ReadAll(dir, content) ==
    LET files_2024 == Glob2024(dir)
    IN  Concat([i \in 1..Len(files_2024) |-> content[files_2024[i]]]
               \o <<content[FileJan2025]>>)

\* 2024-01-01 00:00 and 2025-02-01 00:00 (2024 has 366 days, January 31).
WindowStart == 0
WindowEnd == (366 + 31) * MinutesPerDay

\* column >= bound and column < bound on a datetime column: False for NaT.
Ge(c, bound) == c.k = "ts" /\ c.t >= bound
Lt(c, bound) == c.k = "ts" /\ c.t < bound
Le(c, bound) == c.k = "ts" /\ c.t <= bound

InWindowClosed(row) ==
    Ge(row.tpep_pickup_datetime, WindowStart) /\ Le(row.tpep_pickup_datetime, WindowEnd)

\* (df[c] >= '2024-01-01') & (df[c] < '2025-02-01')
InWindow(row) ==
    Ge(row.tpep_pickup_datetime, WindowStart) /\ Lt(row.tpep_pickup_datetime, WindowEnd)

\* aggregation.load_all_data(data_dir): read, concatenate, coerce, filter.
AggregationLoadAllData ==
    /\ pc = "start"
    /\ IF FileJan2025 \notin files
       THEN /\ error' = "FileNotFoundError"
            /\ pc' = "agg_aborted"
            /\ UNCHANGED <<df_all, df_raw>>
       ELSE /\ df_all' = ReadAll(files, batches)
            /\ df_raw' = SelectSeq(EnsureDatetime(df_all'), InWindow)
            /\ pc' = "agg_loaded"
            /\ UNCHANGED error
    /\ UNCHANGED <<files, batches, df_before, df, df_clean, agg_fn, df_daily, test_size,
                   train_df, test_df, forecast_for_test, metric_pairs>>

\* eda.load_all_data(data_dir), called by main: read and concatenate, no filter.
EdaLoadAllData ==
    /\ pc = "start"
    /\ IF FileJan2025 \notin files
       THEN /\ error' = "FileNotFoundError"
            /\ pc' = "main_aborted"
            /\ UNCHANGED <<df_all, df_raw>>
       ELSE /\ df_all' = ReadAll(files, batches)
            /\ df_raw' = df_all'
            /\ pc' = "main_loaded"
            /\ UNCHANGED error
    /\ UNCHANGED <<files, batches, df_before, df, df_clean, agg_fn, df_daily, test_size,
                   train_df, test_df, forecast_for_test, metric_pairs>>

\* main.py lines 39-40: the same window with pd.Timestamp bounds and no coercion;
\* comparing an object-typed column with a Timestamp raises TypeError.
MainFilter ==
    /\ pc = "main_loaded"
    /\ IF IsDatetimeDtype(Column(df_raw, "tpep_pickup_datetime"))
       THEN /\ df_raw' = SelectSeq(df_raw, InWindow)
            /\ pc' = "main_filtered"
            /\ UNCHANGED error
       ELSE /\ error' = "TypeError"
            /\ pc' = "main_aborted"
            /\ UNCHANGED df_raw
    /\ UNCHANGED <<files, batches, df_all, df_before, df, df_clean, agg_fn, df_daily,
                   test_size, train_df, test_df, forecast_for_test, metric_pairs>>

-----------------------------------------------------------------------------
(* Forecast and evaluation: main.py lines 58-80, modeling.py, evaluation.py *)

\* main.py: test_size = 30
TestSizeMain == 30

\* A fit needs at least this many rows (Prophet.fit raises ValueError below it).
MinFitRows == 2

\* pd.to_datetime of a date: midnight of that date.
DateToTimestamp(d) == d * MinutesPerDay

\* main.py: df_daily['ds'] = pd.to_datetime(df_daily['ds']); test_size = 30
MainConvertDs ==
    /\ pc = "convert_ds"
    /\ df_daily' = [i \in 1..Len(df_daily) |->
                      [df_daily[i] EXCEPT !.ds = DateToTimestamp(@)]]
    /\ test_size' = TestSizeMain
    /\ pc' = "split"
    /\ UNCHANGED <<error, files, batches, df_all, df_raw, df_before, df, df_clean,
                   agg_fn, train_df, test_df, forecast_for_test, metric_pairs>>

\* model.make_future_dataframe(periods): the history's dates followed by the
\* `periods` consecutive days after the last of them.
MakeFutureDataframe(history, periods) ==
    LET last == history[Len(history)].ds
    IN  [i \in 1..Len(history) |-> history[i].ds]
        \o [i \in 1..periods |-> last + i * MinutesPerDay]

\* model.predict(future): one row per requested date; yhat is the model's point
\* forecast for that date, kept symbolic.
Predict(future) == [i \in 1..Len(future) |-> [ds |-> future[i], yhat |-> <<"yhat", future[i]>>]]

\* make_forecast(model, periods)
make_forecast(history, periods) == Predict(MakeFutureDataframe(history, periods))

\* DataFrame.tail(n)
TailRows(s, n) == IF n = 0 THEN <<>> ELSE ILocFrom(s, -n)

\* main.py lines 67-75: fit on train_df, forecast test_size days, keep the last
\* test_size forecast rows.
TrainAndForecast ==
    /\ pc = "fit"
    /\ IF Len(train_df) < MinFitRows
       THEN /\ error' = "ValueError"
            /\ pc' = "main_aborted"
            /\ UNCHANGED forecast_for_test
       ELSE /\ forecast_for_test' =
                  TailRows(make_forecast(SortValues(train_df), test_size), test_size)
            /\ pc' = "evaluate"
            /\ UNCHANGED error
    /\ UNCHANGED <<files, batches, df_all, df_raw, df_before, df, df_clean, agg_fn,
                   df_daily, test_size, train_df, test_df, metric_pairs>>

\* evaluate_forecast(test_df['y'], forecast_for_test['yhat']): the metrics take the
\* two columns row by row (sklearn pairs by position; the index labels of both
\* columns are N-test_size..N-1, so the MAPE term pairs the same rows); the ds
\* columns are not passed.  Each pair is recorded with the dates of its two rows.
PairRows(actual, predicted) ==
    [i \in 1..Len(actual) |->
        [actual_ds |-> actual[i].ds, y |-> actual[i].y,
         forecast_ds |-> predicted[i].ds, yhat |-> predicted[i].yhat]]

EvaluateForecast ==
    /\ pc = "evaluate"
    /\ IF Len(test_df) # Len(forecast_for_test)
       THEN /\ error' = "ValueError"
            /\ pc' = "main_aborted"
            /\ UNCHANGED metric_pairs
       ELSE /\ metric_pairs' = PairRows(test_df, forecast_for_test)
            /\ pc' = "evaluated"
            /\ UNCHANGED error
    /\ UNCHANGED <<files, batches, df_all, df_raw, df_before, df, df_clean, agg_fn,
                   df_daily, test_size, train_df, test_df, forecast_for_test>>

-----------------------------------------------------------------------------
(* Inputs of the splitter taken alone *)

MaxLen == 3
MaxDay == 3
MaxCount == 2

SeriesPoints == [ds : 0..MaxDay, y : 1..MaxCount]

\* Series with one point per date, in any row order.
SeriesInputs == {s \in SeqsUpTo(SeriesPoints, MaxLen) :
                    IsInjective([i \in 1..Len(s) |-> s[i].ds])}

TestSizes == -1..(MaxLen + 1)

InitSplit ==
    /\ pc = "split"
    /\ error = "none"
    /\ files = {}
    /\ batches = <<>>
    /\ df_all = <<>>
    /\ df_raw = <<>>
    /\ df_before = <<>>
    /\ df = <<>>
    /\ df_clean = <<>>
    /\ agg_fn = "none"
    /\ df_daily \in SeriesInputs
    /\ test_size \in TestSizes
    /\ train_df = <<>>
    /\ test_df = <<>>
    /\ forecast_for_test = <<>>
    /\ metric_pairs = <<>>

NextSplit == TrainTestSplit

SpecSplit == InitSplit /\ [][NextSplit]_vars

-----------------------------------------------------------------------------
(* Properties of the splitter *)

IsAscending(s) == \A i \in 1..(Len(s) - 1) : s[i].ds < s[i + 1].ds

ValidSize == 0 < test_size /\ test_size < Len(df_daily)

\* C1: for 0 < test_size < N the split returns the first N - test_size and the last
\* test_size points of the date-sorted series: train followed by test is the input's
\* points in ascending date order, nothing lost, duplicated or shared.
C1_SplitReconstructs ==
    (pc = "fit" /\ ValidSize) =>
        LET whole == train_df \o test_df
            N == Len(df_daily)
        IN  /\ Len(train_df) = N - test_size
            /\ Len(test_df) = test_size
            /\ Len(whole) = N
            /\ IsAscending(whole)
            /\ Range(whole) = Range(df_daily)
            /\ Range(train_df) \cap Range(test_df) = {}

C1_Witness ==
    /\ pc = "fit"
    /\ ValidSize
    /\ Len(df_daily) = 3
    /\ ~IsAscending(df_daily)
    /\ Len(train_df) = 2

\* C2: with test_size <= 0 or test_size >= N the call fails with
\* InvalidSplitSizeError and returns no pair.
C2_InvalidSizeRaises ==
    (pc = "fit" /\ ~ValidSize) => error = "InvalidSplitSizeError"

-----------------------------------------------------------------------------
(* Aggregation followed by the split *)

MaxAggRows == 3

\* A trip with the given pickup cell; the other fields are those of an ordinary trip.
TripAt(c) ==
    [tpep_pickup_datetime |-> c,
     trip_distance |-> Num(3), fare_amount |-> Num(8), total_amount |-> Num(9),
     passenger_count |-> Num(1), congestion_surcharge |-> Num(2),
     Airport_fee |-> Num(0), RatecodeID |-> Num(1), store_and_fwd_flag |-> <<"N">>]

\* Two trips in the same hour, one in the next hour, one two days later (the day
\* between has no trip), a missing timestamp, and text cells.
AggCells ==
    {Timestamp(30), Timestamp(45), Timestamp(90), Timestamp(2 * MinutesPerDay + 10),
     NaT, Text(90), BadText}

InitSeries ==
    /\ pc = "aggregate"
    /\ error = "none"
    /\ files = {}
    /\ batches = <<>>
    /\ df_all = <<>>
    /\ df_raw = <<>>
    /\ df_before = <<>>
    /\ df = <<>>
    /\ df_clean \in SeqsUpTo({TripAt(c) : c \in AggCells}, MaxAggRows)
    /\ agg_fn = "none"
    /\ df_daily = <<>>
    /\ test_size \in -1..(MaxAggRows + 1)
    /\ train_df = <<>>
    /\ test_df = <<>>
    /\ forecast_for_test = <<>>
    /\ metric_pairs = <<>>

NextSeries == AggregateDaily \/ AggregateHourly \/ TrainTestSplit

SpecSeries == InitSeries /\ [][NextSeries]_vars

\* The instant a pickup cell stands for, when it stands for one.
HasInstant(c) == c.k \in {"ts", "str"}

\* Rows of the aggregated frame whose pickup cell is an instant of calendar day d.
TripsOnDay(d) ==
    {i \in 1..Len(df_clean) :
        /\ HasInstant(df_clean[i].tpep_pickup_datetime)
        /\ d * MinutesPerDay <= df_clean[i].tpep_pickup_datetime.t
        /\ df_clean[i].tpep_pickup_datetime.t < (d + 1) * MinutesPerDay}

ValidTrips == {i \in 1..Len(df_clean) : HasInstant(df_clean[i].tpep_pickup_datetime)}

RECURSIVE SumY(_)
SumY(s) == IF s = <<>> THEN 0 ELSE s[1].y + SumY(Tail(s))

\* C7: aggregate_daily gives one point per calendar date that has a trip with a
\* valid timestamp, counting those trips; dates strictly increase, no date without
\* a trip gets a point, and the counts add up to the number of valid trips (an empty
\* record set gives an empty series).
C7_DailyCounts ==
    (agg_fn = "daily") =>
        /\ IsAscending(df_daily)
        /\ \A n \in 1..Len(df_daily) :
              /\ df_daily[n].y >= 1
              /\ df_daily[n].y = Cardinality(TripsOnDay(df_daily[n].ds))
        /\ \A i \in ValidTrips : \E n \in 1..Len(df_daily) : i \in TripsOnDay(df_daily[n].ds)
        /\ SumY(df_daily) = Cardinality(ValidTrips)
        /\ (df_clean = <<>> => df_daily = <<>>)

C7_Witness ==
    /\ agg_fn = "daily"
    /\ Len(df_clean) = 3
    /\ Cardinality(ValidTrips) = 2
    /\ Len(df_daily) = 2
    /\ df_daily[2].ds - df_daily[1].ds = 2

\* C8: when the output of aggregate_daily or aggregate_hourly is split with
\* 0 < test_size < N, every train timestamp is strictly before every test timestamp.
C8_TrainBeforeTest ==
    (pc = "fit" /\ agg_fn # "none" /\ ValidSize) =>
        \A i \in 1..Len(train_df) : \A j \in 1..Len(test_df) :
            train_df[i].ds < test_df[j].ds

C8_Witness ==
    /\ pc = "fit"
    /\ agg_fn = "hourly"
    /\ ValidSize
    /\ Len(train_df) = 1
    /\ Len(test_df) = 2

-----------------------------------------------------------------------------
(* The end of main: conversion of ds, split, fit, forecast, evaluation *)

HorizonDays == 33
MaxGaps == 2

\* Daily series as aggregate_daily returns them: ascending dates out of
\* 0..HorizonDays-1 with at most MaxGaps dates that have no trip.
DailySeries(gaps) ==
    LET days == AscendingSeq((0..(HorizonDays - 1)) \ gaps)
    IN  [i \in 1..Len(days) |-> [ds |-> days[i], y |-> 100 + days[i]]]

\* The subsets of S with at most n elements.
RECURSIVE SubsetsUpTo(_, _)
SubsetsUpTo(S, n) ==
    IF n = 0 THEN {{}}
    ELSE LET smaller == SubsetsUpTo(S, n - 1)
         IN  smaller \cup {g \cup {x} : g \in smaller, x \in S}

GapSets == SubsetsUpTo(0..(HorizonDays - 1), MaxGaps)

InitEval ==
    /\ pc = "convert_ds"
    /\ error = "none"
    /\ files = {}
    /\ batches = <<>>
    /\ df_all = <<>>
    /\ df_raw = <<>>
    /\ df_before = <<>>
    /\ df = <<>>
    /\ df_clean = <<>>
    /\ agg_fn = "daily"
    /\ \E g \in GapSets : df_daily = DailySeries(g)
    /\ test_size = 0
    /\ train_df = <<>>
    /\ test_df = <<>>
    /\ forecast_for_test = <<>>
    /\ metric_pairs = <<>>

NextEval == MainConvertDs \/ TrainTestSplit \/ TrainAndForecast \/ EvaluateForecast

SpecEval == InitEval /\ [][NextEval]_vars

\* C9: every (actual, forecast) pair that enters the metrics refers to one date.
C9_PairsShareDate ==
    (pc = "evaluated") =>
        \A i \in 1..Len(metric_pairs) :
            metric_pairs[i].actual_ds = metric_pairs[i].forecast_ds

\* The pairing is right on a series without gaps.
C9_AlignedWithoutGaps ==
    (pc = "evaluated" /\ Len(df_daily) = HorizonDays) =>
        \A i \in 1..Len(metric_pairs) :
            metric_pairs[i].actual_ds = metric_pairs[i].forecast_ds

-----------------------------------------------------------------------------
(* The loader on a data directory *)

MaxLoadRows == 2

\* Pickup cells around the two ends of the window, a null and an unparseable text.
LoadCells ==
    {Timestamp(WindowStart - 1), Timestamp(WindowStart), Timestamp(WindowEnd - 1),
     Timestamp(WindowEnd), NaT, BadText}

\* At most MaxLoadRows rows spread over the files of the directory, file by file.
Placements(dir) ==
    {p \in SeqsUpTo(dir \X LoadCells, MaxLoadRows) :
        \A i \in 1..(Len(p) - 1) :
            \/ p[i][1][1] < p[i + 1][1][1]
            \/ p[i][1][1] = p[i + 1][1][1] /\ p[i][1][2] <= p[i + 1][1][2]}

BatchOf(p, f) ==
    LET mine == SelectSeq(p, LAMBDA e : e[1] = f)
    IN  [i \in 1..Len(mine) |-> TripAt(mine[i][2])]

InitLoad ==
    /\ pc = "start"
    /\ error = "none"
    /\ files \in SUBSET ExpectedFiles
    /\ \E p \in Placements(files) : batches = [f \in files |-> BatchOf(p, f)]
    /\ df_all = <<>>
    /\ df_raw = <<>>
    /\ df_before = <<>>
    /\ df = <<>>
    /\ df_clean = <<>>
    /\ agg_fn = "none"
    /\ df_daily = <<>>
    /\ test_size = 0
    /\ train_df = <<>>
    /\ test_df = <<>>
    /\ forecast_for_test = <<>>
    /\ metric_pairs = <<>>

NextLoad == AggregationLoadAllData \/ EdaLoadAllData \/ MainFilter

SpecLoad == InitLoad /\ [][NextLoad]_vars

\* A loaded row is kept when its pickup cell is an instant t with
\* 2024-01-01 <= t < 2025-02-01.
KeptByWindow(row) ==
    /\ row.tpep_pickup_datetime.k = "ts"
    /\ (366 + 31) * 24 * 60 > row.tpep_pickup_datetime.t
    /\ row.tpep_pickup_datetime.t >= 0

FilterDone == pc \in {"agg_loaded", "main_filtered"}

C5_WitnessNull ==
    /\ pc = "agg_loaded"
    /\ Len(df_all) = 2
    /\ df_all[1].tpep_pickup_datetime = BadText
    /\ df_all[2].tpep_pickup_datetime = NaT
    /\ df_raw = <<>>

\* C6: whenever an expected batch file is absent the loader fails and the run
\* aborts: no record set is produced from an incomplete directory.
C6_MissingFileAborts ==
    (pc # "start" /\ files # ExpectedFiles) =>
        (pc \in {"agg_aborted", "main_aborted"} /\ error = "FileNotFoundError")

\* The January 2025 file is the one whose absence the loader detects.
C6_MissingJanuaryAborts ==
    (pc # "start" /\ FileJan2025 \notin files) =>
        (pc \in {"agg_aborted", "main_aborted"} /\ error = "FileNotFoundError")

-----------------------------------------------------------------------------
(* The cleaner on a record set *)

MaxCleanRows == 2

\* Trips inside the window.  passenger_count, RatecodeID, store_and_fwd_flag,
\* congestion_surcharge and Airport_fee are recorded together or not at all.
CleanTrip(d, f, o) ==
    [tpep_pickup_datetime |-> Timestamp(30),
     trip_distance |-> d,
     fare_amount |-> f,
     total_amount |-> IF IsNa(f) THEN NaN ELSE <<f[1] + Scale>>,
     passenger_count |-> IF o = "missing" THEN NaN ELSE IF o = "N" THEN Num(1) ELSE Num(2),
     congestion_surcharge |-> IF o = "missing" THEN NaN ELSE Num(2),
     Airport_fee |-> IF o = "missing" THEN NaN ELSE Num(0),
     RatecodeID |-> IF o = "missing" THEN NaN ELSE Num(1),
     store_and_fwd_flag |-> IF o = "missing" THEN NaN ELSE <<o>>]

CleanTrips ==
    {CleanTrip(d, f, o) : d \in {Num(-1), Num(3)},
                          f \in {NaN, Num(-3), Num(2), Num(8)},
                          o \in {"N", "Y", "missing"}}

InitClean ==
    /\ pc = "preprocess"
    /\ error = "none"
    /\ files = {}
    /\ batches = <<>>
    /\ df_all = <<>>
    /\ df_raw \in SeqsUpTo(CleanTrips, MaxCleanRows)
    /\ df_before = <<>>
    /\ df = <<>>
    /\ df_clean = <<>>
    /\ agg_fn = "none"
    /\ df_daily = <<>>
    /\ test_size = 0
    /\ train_df = <<>>
    /\ test_df = <<>>
    /\ forecast_for_test = <<>>
    /\ metric_pairs = <<>>

NextClean ==
    RemoveNegativeValues \/ FillMissingNumeric \/ FillMissingCategorical \/ CapOutliers

SpecClean == InitClean /\ [][NextClean]_vars

Returned == pc = "aggregate"

CleanedFields ==
    {"trip_distance", "fare_amount", "total_amount", "passenger_count",
     "congestion_surcharge", "Airport_fee", "RatecodeID", "store_and_fwd_flag"}

ScrubbedFields == {"trip_distance", "fare_amount", "total_amount"}

\* C3: after preprocess_data no cleaned field of any record is missing.
C3_NoMissingAfterCleaning ==
    Returned =>
        \A i \in 1..Len(df_clean) : \A c \in CleanedFields : ~IsNa(df_clean[i][c])

\* What holds of the imputed fields: a field is missing after cleaning only if the
\* whole column was missing or negative.
C3_ImputedUnlessColumnEmpty ==
    Returned =>
        \A i \in 1..Len(df_clean) : \A c \in CleanedFields \ {"trip_distance"} :
            IsNa(df_clean[i][c]) => \A j \in 1..Len(df_clean) : IsNa(df_clean[j][c])

\* C4: after preprocess_data every distance, fare and total is a value >= 0 (its own
\* or the imputed replacement).
C4_ScrubbedFieldsNonNegative ==
    Returned =>
        \A i \in 1..Len(df_clean) : \A c \in ScrubbedFields :
            ~IsNa(df_clean[i][c]) /\ df_clean[i][c][1] >= 0

\* What holds: no negative value survives (a scrubbed distance stays missing).
C4_NoNegativeSurvives ==
    Returned =>
        \A i \in 1..Len(df_clean) : \A c \in ScrubbedFields :
            IsNa(df_clean[i][c]) \/ df_clean[i][c][1] >= 0

\* C10: preprocess_data leaves the caller's record set as it was before the call.
C10_CallerFrameUnchanged ==
    Returned => df_raw = df_before

\* The four steps of the run compose to preprocess_data of the caller's frame.
ReturnsPreprocessData ==
    Returned => df_clean = preprocess_data(df_before)

\* A record set that is already cleaned: no missing value in a cleaned field and no
\* negative distance, fare or total.
AlreadyCleaned(frame) ==
    \A i \in 1..Len(frame) : \A c \in CleanedFields :
        /\ ~IsNa(frame[i][c])
        /\ c \in ScrubbedFields => frame[i][c][1] >= 0

AllFields == CleanedFields \cup {"tpep_pickup_datetime"}

\* after is before except that a distance, fare or total may have been replaced by
\* the 1st or the 99th percentile of its column in before.
OnlyCapped(after, before) ==
    /\ Len(after) = Len(before)
    /\ \A i \in 1..Len(before) :
        /\ \A c \in AllFields \ ScrubbedFields : after[i][c] = before[i][c]
        /\ \A c \in ScrubbedFields :
               after[i][c] \in {before[i][c],
                                Quantile(Column(before, c), LowerPercentile),
                                Quantile(Column(before, c), UpperPercentile)}

\* C11 as stated: cleaning an already-cleaned record set returns it unchanged, and
\* cleaning the result of a cleaning again returns that result unchanged.
C11_CleanerIdempotent ==
    Returned =>
        /\ AlreadyCleaned(df_before) => df_clean = df_before
        /\ preprocess_data(df_clean) = df_clean

\* C11 amended: on an already-cleaned record set scrubbing and imputation change
\* nothing and the result differs from the input only by the capping of distance,
\* fare and total; a second cleaning differs from the first only by a further capping.
C11_IdempotentUpToCapping ==
    /\ (pc \in {"fill_numeric", "fill_categorical", "cap_outliers"}
            /\ AlreadyCleaned(df_before)) => df = df_before
    /\ (Returned /\ AlreadyCleaned(df_before)) => OnlyCapped(df_clean, df_before)
    /\ Returned => OnlyCapped(preprocess_data(df_clean), df_clean)

\* An already-cleaned record set that the cleaning changes, and changes again.
C11_Witness ==
    /\ Returned
    /\ AlreadyCleaned(df_before)
    /\ df_clean # df_before
    /\ preprocess_data(df_clean) # df_clean

\* The caller's record set as it is after the negative-value scrubbing.
Scrubbed == remove_negative_values(df_before, ScrubCols)

\* Column col of a non-empty frame holds only missing values.
OnlyMissing(frame, col) ==
    frame # <<>> /\ \A i \in 1..Len(frame) : IsNa(frame[i][col])

Called == pc # "preprocess"

\* C12: when an imputed field, numeric or categorical, holds only missing values
\* after scrubbing, preprocess_data raises and returns no record set.
C12_EmptyColumnRaises ==
    (Called /\ \E c \in Range(NumericCols) \cup Range(CategoricalCols) :
                  OnlyMissing(Scrubbed, c))
        => /\ ~Returned
           /\ pc = "main_aborted" => error # "none"

\* What holds: only a wholly missing categorical field ends the call, by the
\* KeyError of mode()[0].
C12_EmptyCategoricalRaises ==
    (Called /\ \E c \in Range(CategoricalCols) : OnlyMissing(Scrubbed, c))
        => /\ ~Returned
           /\ pc = "main_aborted" => error = "KeyError"

-----------------------------------------------------------------------------
(* Scrubbing and imputation of the fares *)

MaxFareRows == 3

\* A trip with fare f; its total is the fare plus one unit of extras, or a flat
\* amount when flat holds.
FareTrip(f, flat) ==
    [CleanTrip(Num(3), f, "N") EXCEPT
        !.total_amount = IF flat THEN Num(1) ELSE IF IsNa(f) THEN NaN ELSE <<f[1] + Scale>>]

FareTrips ==
    {FareTrip(f, flat) : f \in {NaN, Num(-3), Num(2), Num(4), Num(8)}, flat \in BOOLEAN}

InitImpute ==
    /\ pc = "preprocess"
    /\ error = "none"
    /\ files = {}
    /\ batches = <<>>
    /\ df_all = <<>>
    /\ df_raw \in SeqsUpTo(FareTrips, MaxFareRows)
    /\ df_before = <<>>
    /\ df = <<>>
    /\ df_clean = <<>>
    /\ agg_fn = "none"
    /\ df_daily = <<>>
    /\ test_size = 0
    /\ train_df = <<>>
    /\ test_df = <<>>
    /\ forecast_for_test = <<>>
    /\ metric_pairs = <<>>

NextImpute ==
    RemoveNegativeValues \/ FillMissingNumeric \/ FillMissingCategorical \/ CapOutliers

SpecImpute == InitImpute /\ [][NextImpute]_vars

WasNegative(i, col) == ~IsNa(df_before[i][col]) /\ df_before[i][col][1] < 0

\* The cells of column col that the caller passed in present and non-negative.
ValidBefore(col) ==
    SelectSeq(Column(df_before, col), LAMBDA x : ~IsNa(x) /\ x[1] >= 0)

\* Twice the median of a non-empty sequence of present cells, by rank: the k-th
\* smallest value has fewer than k values below it and at least k values up to it.
TwiceMedianOf(cells) ==
    LET n == Len(cells)
        Below(x) == Cardinality({i \in 1..n : cells[i][1] < x})
        UpTo(x) == Cardinality({i \in 1..n : cells[i][1] <= x})
        Kth(k) == CHOOSE x \in {cells[i][1] : i \in 1..n} : Below(x) < k /\ k <= UpTo(x)
    IN  Kth((n + 1) \div 2) + Kth(n \div 2 + 1)

Imputed == pc \in {"fill_categorical", "cap_outliers"}

\* C13: after scrubbing and numeric imputation, before capping, a record whose fare
\* (total) was negative holds the median of the fares (totals) of the whole record
\* set that were present and non-negative, whenever there is one.
C13_NegativeGetsGlobalMedian ==
    Imputed =>
        \A c \in {"fare_amount", "total_amount"} :
            ValidBefore(c) # <<>> =>
                \A i \in 1..Len(df) :
                    WasNegative(i, c) =>
                        /\ ~IsNa(df[i][c])
                        /\ 2 * df[i][c][1] = TwiceMedianOf(ValidBefore(c))

\* A negative fare replaced by a median that averages two distinct valid fares,
\* while the negative fare is smaller than both.
C13_Witness ==
    /\ pc = "fill_categorical"
    /\ \E i \in 1..Len(df) :
          /\ WasNegative(i, "fare_amount")
          /\ Len(ValidBefore("fare_amount")) = 2
          /\ df[i].fare_amount \notin Range(ValidBefore("fare_amount"))

====
